---------------------------- MODULE Spec2Model ----------------------------
(***************************************************************************)
(* Model of scripts/deepseek_search.py (scripts/doubao_search.py is the    *)
(* same program with another host substring and error-class name).         *)
(*                                                                         *)
(* Text is modelled as a sequence of Unicode code points, so that the      *)
(* string operations of the program (split, strip, regular-expression      *)
(* matches, lower, join, substring search) are computed, not assumed.      *)
(*                                                                         *)
(* Three specifications:                                                   *)
(*   Spec       one run of the command-line program: main, search_deepseek *)
(*              and the two bridge calls, against browsers with and        *)
(*              without matching tabs, running or not;                     *)
(*   SpecClean  clean_content applied to a text and again to its output;   *)
(*   SpecExtract  one call of extract_content against a one-tab browser,   *)
(*              on page texts that include texts longer than the 5000      *)
(*              characters the page script cuts at.                        *)
(*                                                                         *)
(* The browser is a list of windows, front first, each a list of tabs with *)
(* an identity, a URL and a page text.  The AppleScript and the page       *)
(* script are modelled by what their statements are written to do.         *)
(*                                                                         *)
(* Faults of the environment in Spec: inside execute_applescript the       *)
(* temporary file cannot be created or written, osascript cannot be        *)
(* started or exits with a non-zero status; a statement of a step of the   *)
(* try block raises an exception that is not the custom error; the         *)
(* --output file cannot be written.  The program is taken to run under a   *)
(* Python that compiles it (3.12 or later, for the f-string of line 229),  *)
(* with a command line that argparse accepts.                              *)
(***************************************************************************)
EXTENDS Integers, Sequences, FiniteSets, TLC

VARIABLES
    pc,         \* position of the running process
    args,       \* parsed command line: [clean, verbose, text_only, output]
    platform,   \* "darwin" or "other"
    query,      \* the query text (code points)
    chrome,     \* the browser: [running, windows, active], see Browsers
    pageText,   \* the AppleScript variable pageText: what the page script returned
    tmpfiles,   \* names of the temporary script files that exist
    ntmp,       \* number of temporary script files created so far
    content,    \* search_deepseek's local variable content
    results,    \* the Result Record search_deepseek returned
    steps,      \* the orchestrator steps executed so far, in order
    exitCode,   \* the process exit status, -1 while running
    saved,      \* save_results: "no" (not called), "ok" or "failed" (it raised)
    text_in,    \* input of clean_content (cleaner specification)
    clean1,     \* clean_content(text_in, query)
    clean2      \* clean_content(clean1, query)

vars == <<pc, args, platform, query, chrome, pageText, tmpfiles, ntmp, content, results,
          steps, exitCode, saved, text_in, clean1, clean2>>

\* The command line and the platform, fixed for one run.
envVars == <<args, platform, query>>
\* The browser and what the page script last returned.
browserVars == <<chrome, pageText>>
\* The state of one run of the command-line program.
runVars == <<tmpfiles, ntmp, content, results, steps, exitCode, saved>>
\* The state of the cleaner specification.
cleanerVars == <<text_in, clean1, clean2>>

---------------------------------------------------------------------------
(* Bounds of the model *)

\* Largest number of lines of a cleaner input.
MaxLines == 3

---------------------------------------------------------------------------
(* Text primitives *)

NL == <<10>>

\* str.isspace() on one code point: what str.strip() removes.
IsSpace(c) ==
    \/ c \in 9..13 \/ c \in 28..32 \/ c = 133 \/ c = 160 \/ c = 5760
    \/ c \in 8192..8202 \/ c = 8232 \/ c = 8233 \/ c = 8239 \/ c = 8287
    \/ c = 12288

\* [U+4E00-U+9FFF]
IsCJK(c) == c >= 19968 /\ c <= 40959

\* [a-zA-Z0-9]
IsAsciiAlnum(c) == c \in 97..122 \/ c \in 65..90 \/ c \in 48..57

\* \d of a str pattern: a decimal digit (ASCII, Arabic-Indic, fullwidth).
IsDigit(c) == c \in 48..57 \/ c \in 1632..1641 \/ c \in 65296..65305

\* str.lower() on one code point (ASCII, Latin-1 and fullwidth capitals).
LowerChar(c) ==
    IF c \in 65..90 \/ (c \in 192..222 /\ c # 215) \/ c \in 65313..65338
    THEN c + 32 ELSE c

lower(s) == [i \in 1..Len(s) |-> LowerChar(s[i])]

SetMin(S) == CHOOSE x \in S : \A y \in S : x <= y
SetMax(S) == CHOOSE x \in S : \A y \in S : x >= y

\* str.strip()
strip(s) ==
    LET first == CHOOSE i \in 1..(Len(s) + 1) :
                     /\ i = Len(s) + 1 \/ ~IsSpace(s[i])
                     /\ \A j \in 1..(i - 1) : IsSpace(s[j])
        last == CHOOSE i \in 0..Len(s) :
                     /\ i = 0 \/ ~IsSpace(s[i])
                     /\ \A j \in (i + 1)..Len(s) : IsSpace(s[j])
    IN  SubSeq(s, first, last)

StartsWith(s, p) == Len(s) >= Len(p) /\ SubSeq(s, 1, Len(p)) = p

\* 0-based offsets at or after from where p occurs in s.
Occurrences(s, p, from) ==
    {i \in from..(Len(s) - Len(p)) : SubSeq(s, i + 1, i + Len(p)) = p}

\* Python's  p in s
Contains(s, p) == Occurrences(s, p, 0) # {}

\* str.split(sep): never empty, "" gives [""]; the leftmost separator first.
RECURSIVE split(_, _)
split(s, sep) ==
    LET at == Occurrences(s, sep, 0)
    IN  IF at = {} THEN <<s>>
        ELSE <<SubSeq(s, 1, SetMin(at))>>
             \o split(SubSeq(s, SetMin(at) + Len(sep) + 1, Len(s)), sep)

\* sep.join(parts)
RECURSIVE join(_, _)
join(parts, sep) ==
    IF parts = <<>> THEN <<>>
    ELSE IF Len(parts) = 1 THEN parts[1]
    ELSE parts[1] \o sep \o join(Tail(parts), sep)

---------------------------------------------------------------------------
(* clean_content *)

\* The deny list, in source order.  kind "full" is ^s$, "prefix" is ^s,
\* "digits" is ^s\d+t$.
exclude_patterns == <<
    [kind |-> "full", s |-> <<26032, 23545, 35805>>, t |-> <<>>],         \* U+65B0 U+5BF9 U+8BDD
    [kind |-> "prefix", s |-> <<65, 73, 32, 21019, 20316>>, t |-> <<>>],  \* "AI " U+521B U+4F5C
    [kind |-> "full", s |-> <<20113, 30424>>, t |-> <<>>],                \* U+4E91 U+76D8
    [kind |-> "full", s |-> <<26356, 22810>>, t |-> <<>>],                \* U+66F4 U+591A
    [kind |-> "full", s |-> <<21382, 21490, 23545, 35805>>, t |-> <<>>],  \* U+5386 U+53F2 U+5BF9 U+8BDD
    [kind |-> "prefix", s |-> <<25238, 38899>>, t |-> <<>>],              \* U+6296 U+97F3
    [kind |-> "full", s |-> <<24555, 36895>>, t |-> <<>>],                \* U+5FEB U+901F
    [kind |-> "full", s |-> <<24110, 25105, 20889, 20316>>, t |-> <<>>],  \* U+5E2E U+6211 U+5199 U+4F5C
    [kind |-> "full", s |-> <<32534, 31243>>, t |-> <<>>],                \* U+7F16 U+7A0B
    [kind |-> "full", s |-> <<28145, 20837, 30740, 31350>>, t |-> <<>>],  \* U+6DF1 U+5165 U+7814 U+7A76
    [kind |-> "full", s |-> <<22270, 20687, 29983, 25104>>, t |-> <<>>],  \* U+56FE U+50CF U+751F U+6210
    [kind |-> "full", s |-> <<35299, 39064, 31572, 30097>>, t |-> <<>>],  \* U+89E3 U+9898 U+7B54 U+7591
    [kind |-> "full", s |-> <<26356, 22810>>, t |-> <<>>],                \* U+66F4 U+591A (listed twice)
    [kind |-> "full", s |-> <<80, 80, 84, 32, 29983, 25104>>, t |-> <<>>],\* "PPT " U+751F U+6210
    [kind |-> "full", s |-> <<20813, 36153>>, t |-> <<>>],                \* U+514D U+8D39
    [kind |-> "digits", s |-> <<21442, 32771, 32>>,
                        t |-> <<32, 31687, 36164, 26009>>],               \* U+53C2 U+8003 " " \d+ " " U+7BC7 U+8D44 U+6599
    [kind |-> "prefix", s |-> <<69, 82, 82, 79, 82, 58>>, t |-> <<>>]     \* "ERROR:"
>>

\* A pattern's $ : the end of the text, or just before one final newline.
AtEnd(rest) == rest = <<>> \/ rest = NL

\* re.match(pattern, line)
re_match(pattern, line) ==
    /\ StartsWith(line, pattern.s)
    /\ LET rest == SubSeq(line, Len(pattern.s) + 1, Len(line))
       IN  CASE pattern.kind = "prefix" -> TRUE
             [] pattern.kind = "full" -> AtEnd(rest)
             [] pattern.kind = "digits" ->
                   \E n \in 1..Len(rest) :
                       /\ \A i \in 1..n : IsDigit(rest[i])
                       /\ StartsWith(SubSeq(rest, n + 1, Len(rest)), pattern.t)
                       /\ AtEnd(SubSeq(rest, n + 1 + Len(pattern.t), Len(rest)))

\* The inner loop over exclude_patterns: the value of exclude after it.
Excluded(line) ==
    \E k \in 1..Len(exclude_patterns) : re_match(exclude_patterns[k], line)

has_chinese(line) == \E i \in 1..Len(line) : IsCJK(line[i])
has_text(line) == \E i \in 1..Len(line) : IsAsciiAlnum(line[i])

\* len(line) > 10
MinLineLen == 10

\* KeepLine with the length test written len(line) >= 10.
KeepLine_AtLeast(line) ==
    /\ line # <<>>
    /\ ~Excluded(line)
    /\ Len(line) >= MinLineLen
    /\ (has_chinese(line) \/ has_text(line))

\* Whether the loop body appends the (stripped) line to cleaned_lines.
KeepLine(line) ==
    /\ line # <<>>
    /\ ~Excluded(line)
    /\ Len(line) > MinLineLen
    /\ (has_chinese(line) \/ has_text(line))

\* The loop over lines: cleaned_lines after it.
RECURSIVE CleanedLines(_)
CleanedLines(lines) ==
    IF lines = <<>> THEN <<>>
    ELSE LET line == strip(Head(lines))
         IN  (IF KeepLine(line) THEN <<line>> ELSE <<>>)
             \o CleanedLines(Tail(lines))

\* AnchorIndex comparing without lower().
AnchorIndex_CaseSensitive(cleaned_lines, q) ==
    LET hits == {i \in 1..Len(cleaned_lines) : Contains(cleaned_lines[i], q)}
    IN  IF hits = {} THEN 0 ELSE SetMin(hits)

\* The anchor loop: the first i (1-based) with query_lower in line.lower(),
\* 0 when the loop ends without returning.
AnchorIndex(cleaned_lines, q) ==
    LET hits == {i \in 1..Len(cleaned_lines) :
                    Contains(lower(cleaned_lines[i]), lower(q))}
    IN  IF hits = {} THEN 0 ELSE SetMin(hits)

\* AnchorSlice returning cleaned_lines[i+1:], the lines after the match.
AnchorSlice_AfterMatch(cleaned_lines, q) ==
    LET i == AnchorIndex(cleaned_lines, q)
    IN  IF i = 0 THEN cleaned_lines
        ELSE SubSeq(cleaned_lines, i + 1, Len(cleaned_lines))

\* The lines the anchor step returns: cleaned_lines[i:] or all of them.
AnchorSlice(cleaned_lines, q) ==
    LET i == AnchorIndex(cleaned_lines, q)
    IN  IF i = 0 THEN cleaned_lines
        ELSE SubSeq(cleaned_lines, i, Len(cleaned_lines))

\* clean_content(content, query); an absent query (None) and "" are both <<>>.
clean_content(c, q) ==
    IF c = <<>> THEN c
    ELSE LET cleaned_lines == CleanedLines(split(c, NL))
         IN  IF q # <<>> /\ cleaned_lines # <<>>
             THEN join(AnchorSlice(cleaned_lines, q), NL \o NL)
             ELSE join(cleaned_lines, NL \o NL)

---------------------------------------------------------------------------
(* extract_content: the page script.  The script is modelled at the level   *)
(* of its JavaScript text after the string escapes are resolved ("\n" is a  *)
(* line feed, /\s+/ a run of white space).                                  *)

S_ERROR == <<69, 82, 82, 79, 82, 58>>      \* "ERROR:"

\* "ERROR: Query not found in page\n\nFull text:\n"
S_QNF ==
    <<69, 82, 82, 79, 82, 58, 32, 81, 117, 101, 114, 121, 32, 110, 111,
    116, 32, 102, 111, 117, 110, 100, 32, 105, 110, 32, 112, 97, 103, 101,
    10, 10, 70, 117, 108, 108, 32, 116, 101, 120, 116, 58, 10>>

\* "ERROR: DeepSeek tab not found"
S_TABNF ==
    <<69, 82, 82, 79, 82, 58, 32, 68, 101, 101, 112, 83, 101, 101, 107,
    32, 116, 97, 98, 32, 110, 111, 116, 32, 102, 111, 117, 110, 100>>

S_SUCCESS == <<83, 85, 67, 67, 69, 83, 83>>     \* "SUCCESS"

endMarkers == <<
    <<21442, 32771>>,                        \* U+53C2 U+8003
    <<25105, 21487, 20197, 24110, 20320>>,   \* U+6211 U+53EF U+4EE5 U+5E2E U+4F60
    <<24555, 36895>>,                        \* U+5FEB U+901F
    <<24110, 25105, 20889, 20316>>,          \* U+5E2E U+6211 U+5199 U+4F5C
    <<32534, 31243>>,                        \* U+7F16 U+7A0B
    <<28145, 20837, 30740, 31350>>           \* U+6DF1 U+5165 U+7814 U+7A76
>>

\* text.indexOf(marker, start + 50)
MarkerOffset == 50
\* text.substring(0, 5000), end = start + 5000
MaxChars == 5000
\* line.length > 20
MinJsLineLen == 20

\* White space of JavaScript's trim() and \s.
JsIsSpace(c) ==
    \/ c \in 9..13 \/ c = 32 \/ c = 160 \/ c = 5760 \/ c \in 8192..8202
    \/ c = 8232 \/ c = 8233 \/ c = 8239 \/ c = 8287 \/ c = 12288 \/ c = 65279

js_trim(s) ==
    LET first == CHOOSE i \in 1..(Len(s) + 1) :
                     /\ i = Len(s) + 1 \/ ~JsIsSpace(s[i])
                     /\ \A j \in 1..(i - 1) : JsIsSpace(s[j])
        last == CHOOSE i \in 0..Len(s) :
                     /\ i = 0 \/ ~JsIsSpace(s[i])
                     /\ \A j \in (i + 1)..Len(s) : JsIsSpace(s[j])
    IN  SubSeq(s, first, last)

\* text.substring(a, b) for 0 <= a <= b
substring(s, a, b) == SubSeq(s, a + 1, IF b < Len(s) THEN b ELSE Len(s))

\* s.replace(/\s+/g, " "): the first character of every run of white space
\* becomes a space, the rest of the run goes.
collapse_ws(s) ==
    LET kept == SelectSeq([i \in 1..Len(s) |-> i],
                          LAMBDA i : \/ ~JsIsSpace(s[i])
                                     \/ i = 1
                                     \/ ~JsIsSpace(s[i - 1]))
    IN  [k \in 1..Len(kept) |->
            IF JsIsSpace(s[kept[k]]) THEN 32 ELSE s[kept[k]]]

\* js_scoped looking for the markers from the match itself, not from 50
\* characters past it.
js_scoped_FromStart(text, q) ==
    LET occ == Occurrences(text, q, 0)
    IN  IF occ = {} THEN S_QNF \o substring(text, 0, MaxChars)
        ELSE LET start == SetMin(occ)
                 found == {k \in 1..Len(endMarkers) :
                             Occurrences(text, endMarkers[k], start) # {}}
                 ends == {SetMin(Occurrences(text, endMarkers[k], start)) :
                             k \in found}
                 end == IF ends = {} THEN start + MaxChars ELSE SetMin(ends)
             IN  collapse_ws(js_trim(substring(text, start, end)))

\* The query branch of the page script.
js_scoped(text, q) ==
    LET occ == Occurrences(text, q, 0)
    IN  IF occ = {} THEN S_QNF \o substring(text, 0, MaxChars)
        ELSE LET start == SetMin(occ)
                 found == {k \in 1..Len(endMarkers) :
                             Occurrences(text, endMarkers[k], start + MarkerOffset) # {}}
                 ends == {SetMin(Occurrences(text, endMarkers[k], start + MarkerOffset)) :
                             k \in found}
                 end == IF ends = {} THEN start + MaxChars ELSE SetMin(ends)
             IN  collapse_ws(js_trim(substring(text, start, end)))

\* skipPatterns: the first 13 entries of the deny list, in the same order.
skipPatterns == SubSeq(exclude_patterns, 1, 13)

\* pattern.test(line): $ is the end of the text only.
js_test(pattern, line) ==
    /\ StartsWith(line, pattern.s)
    /\ (pattern.kind = "full" => Len(line) = Len(pattern.s))

\* JsKeepLine with  line.length >= 20.
JsKeepLine_AtLeast(line) ==
    /\ Len(line) # 0
    /\ ~\E k \in 1..Len(skipPatterns) : js_test(skipPatterns[k], line)
    /\ has_chinese(line)
    /\ Len(line) >= MinJsLineLen

\* Whether the loop body pushes the (trimmed) line to contentLines.
JsKeepLine(line) ==
    /\ Len(line) # 0
    /\ ~\E k \in 1..Len(skipPatterns) : js_test(skipPatterns[k], line)
    /\ has_chinese(line)
    /\ Len(line) > MinJsLineLen

RECURSIVE contentLines(_)
contentLines(lines) ==
    IF lines = <<>> THEN <<>>
    ELSE LET line == js_trim(Head(lines))
         IN  (IF JsKeepLine(line) THEN <<line>> ELSE <<>>)
             \o contentLines(Tail(lines))

\* The generic branch of the page script.
js_generic(text) ==
    LET kept == contentLines(split(text, NL))
    IN  IF Len(kept) > 0 THEN join(kept, NL \o NL)
        ELSE substring(text, 0, MaxChars)

---------------------------------------------------------------------------
(* execute_applescript and the two bridge calls *)

\* "AppleScript execution failed: "
S_EXECFAILED ==
    <<65, 112, 112, 108, 101, 83, 99, 114, 105, 112, 116, 32, 101, 120,
    101, 99, 117, 116, 105, 111, 110, 32, 102, 97, 105, 108, 101, 100, 58,
    32>>

\* "Failed to execute AppleScript: "
S_FAILEDTO ==
    <<70, 97, 105, 108, 101, 100, 32, 116, 111, 32, 101, 120, 101, 99,
    117, 116, 101, 32, 65, 112, 112, 108, 101, 83, 99, 114, 105, 112, 116,
    58, 32>>

\* "Unexpected error: "
S_UNEXPECTED ==
    <<85, 110, 101, 120, 112, 101, 99, 116, 101, 100, 32, 101, 114, 114,
    111, 114, 58, 32>>

\* The interpreter's standard error on a non-zero exit: "execution error (-1743)\n"
StderrText ==
    <<101, 120, 101, 99, 117, 116, 105, 111, 110, 32, 101, 114, 114, 111,
    114, 32, 40, 45, 49, 55, 52, 51, 41, 10>>

\* str(e) of an operating-system error: "[Errno 28] No space left on device"
OsErrorText ==
    <<91, 69, 114, 114, 110, 111, 32, 50, 56, 93, 32, 78, 111, 32, 115,
    112, 97, 99, 101, 32, 108, 101, 102, 116, 32, 111, 110, 32, 100, 101,
    118, 105, 99, 101>>

\* What can go wrong inside one execute_applescript call:
\*   mktemp  NamedTemporaryFile(...) raises, no file is created
\*   write   f.write(script) (or the flush on leaving the with block) raises
\*   spawn   subprocess.run cannot start osascript
\*   status  osascript exits with a non-zero status (check=True raises)
BridgeFaults == {"none", "mktemp", "write", "spawn", "status"}

\* execute_applescript(script), given what osascript would print for the
\* script and the fault that occurs.  created: the temporary file was
\* created; exists: it still exists when the call returns or raises.
execute_applescript(stdout, fault) ==
    LET created == fault # "mktemp"
        \* the with block was left normally and temp_path is bound, so the
        \* inner try statement, whose finally clause unlinks, is entered
        entered == created /\ fault # "write"
        returned == entered /\ fault = "none"
    IN  [raised  |-> ~returned,
         value   |-> IF returned THEN strip(stdout)
                     ELSE IF fault = "status" THEN S_EXECFAILED \o StderrText
                     ELSE S_FAILEDTO \o OsErrorText,
         created |-> created,
         exists  |-> created /\ ~entered]

\* The substring both scripts look for in a tab's URL: "chat.deepseek.com"
HostSubstring ==
    <<99, 104, 97, 116, 46, 100, 101, 101, 112, 115, 101, 101, 107, 46,
    99, 111, 109>>

\* URL of t contains "chat.deepseek.com"
UrlMatches(t) == Contains(t.url, HostSubstring)

\* The value of foundTab when no tab matched: missing value.
MissingValue == [w |-> 0, t |-> 0]

\* The tabs of window w whose URL matches.
MatchingTabs(windows, w) ==
    {t \in 1..Len(windows[w]) : UrlMatches(windows[w][t])}

\* The windows that hold a matching tab.
MatchingWindows(windows) ==
    {w \in 1..Len(windows) : MatchingTabs(windows, w) # {}}

\* LocateScan keeping the last matching tab of the window: the inner loop
\* without its  exit repeat.
LocateScan_LastTab(windows) ==
    IF MatchingWindows(windows) = {} THEN MissingValue
    ELSE LET w == SetMin(MatchingWindows(windows))
         IN  [w |-> w, t |-> SetMax(MatchingTabs(windows, w))]

\* The two loops of find_deepseek_tab's script: windows in order, the tabs
\* of each in order, both left at the first tab that matches.
LocateScan(windows) ==
    IF MatchingWindows(windows) = {} THEN MissingValue
    ELSE LET w == SetMin(MatchingWindows(windows))
         IN  [w |-> w, t |-> SetMin(MatchingTabs(windows, w))]

\* The same two loops in extract_content's script.
ExtractScan(windows) ==
    IF MatchingWindows(windows) = {} THEN MissingValue
    ELSE LET w == SetMin(MatchingWindows(windows))
         IN  [w |-> w, t |-> SetMin(MatchingTabs(windows, w))]

\* tell application "Google Chrome": a browser that is not running is
\* started by the first command sent to it, with the windows it opens.
Launch(browser) == [browser EXCEPT !.running = TRUE]

\* set active tab index ..., set index of (window of foundTab) to 1,
\* activate: the tab becomes the active tab of its window and the window
\* the first window, the other windows keeping their order.
Activate(browser, pos) ==
    [browser EXCEPT
        !.windows = <<browser.windows[pos.w]>>
                    \o SubSeq(browser.windows, 1, pos.w - 1)
                    \o SubSeq(browser.windows, pos.w + 1, Len(browser.windows)),
        !.active = browser.windows[pos.w][pos.t].id]

\* What the tab-lookup part of the scripts finds.
TabFound(browser) == LocateScan(browser.windows) # MissingValue

\* HasErrorMarker testing the start of the output only.
HasErrorMarker_AtStart(result) == StartsWith(result, S_ERROR)

\* if "ERROR:" in result
HasErrorMarker(result) == Contains(result, S_ERROR)

\* find_deepseek_tab(): raised with the error message, or the return value;
\* tab: the identity of the tab the script found, 0 if it found none or did
\* not run; launched: the script started the browser; browser: the browser
\* after the call.
find_deepseek_tab(browser, fault) ==
    LET pos == LocateScan(browser.windows)
        found == pos # MissingValue
        ran == fault = "none"
        r == execute_applescript(IF found THEN S_SUCCESS ELSE S_TABNF, fault)
    IN  [raised   |-> r.raised \/ HasErrorMarker(r.value),
         value    |-> r.value,
         created  |-> r.created,
         exists   |-> r.exists,
         tab      |-> IF ran /\ found THEN browser.windows[pos.w][pos.t].id ELSE 0,
         launched |-> ran /\ ~browser.running,
         pageText |-> <<>>,
         browser  |-> IF ~ran THEN browser
                      ELSE IF found THEN Activate(Launch(browser), pos)
                      ELSE Launch(browser)]

\* extract_content(query): as find_deepseek_tab, tab being the tab whose
\* page the script read and pageText what the page script returned.
extract_content(q, browser, fault) ==
    LET pos == ExtractScan(browser.windows)
        found == pos # MissingValue
        ran == fault = "none"
        text == browser.windows[pos.w][pos.t].text
        pageText_ == IF q # <<>> THEN js_scoped(text, q) ELSE js_generic(text)
        r == execute_applescript(IF found THEN pageText_ ELSE S_TABNF, fault)
    IN  [raised   |-> r.raised \/ HasErrorMarker(r.value),
         value    |-> r.value,
         created  |-> r.created,
         exists   |-> r.exists,
         tab      |-> IF ran /\ found THEN browser.windows[pos.w][pos.t].id ELSE 0,
         launched |-> ran /\ ~browser.running,
         pageText |-> IF ran /\ found THEN pageText_ ELSE <<>>,
         browser  |-> IF ran THEN Launch(browser) ELSE browser]

---------------------------------------------------------------------------
(* search_deepseek and main *)

NoRecord == [pending |-> TRUE]

\* time.sleep(5)
SleepSeconds == 5

\* A lower bound of time.time() - start_time: the time spent sleeping.
Elapsed(done) ==
    IF \E i \in 1..Len(done) : done[i].name = "delay" THEN SleepSeconds ELSE 0

\* The record of the normal return.
SuccessRecord(q, c, cleaned, done) ==
    [success |-> TRUE, query |-> q, content |-> c, length |-> Len(c),
     cleaned |-> cleaned, elapsed_time |-> Elapsed(done), timestamp |-> "now"]

\* ErrorRecord with the length and cleaned fields of the success record.
ErrorRecord_WithLength(q, e, done) ==
    [success |-> FALSE, query |-> q, error |-> e, length |-> Len(e),
     cleaned |-> FALSE, elapsed_time |-> Elapsed(done), timestamp |-> "now"]

\* The record of  except DeepSeekSearchError as e.
ErrorRecord(q, e, done) ==
    [success |-> FALSE, query |-> q, error |-> e,
     elapsed_time |-> Elapsed(done), timestamp |-> "now"]

\* The record of  except Exception as e.
UnexpectedRecord(q, e, done) ==
    [success |-> FALSE, query |-> q, error |-> S_UNEXPECTED \o e,
     elapsed_time |-> Elapsed(done), timestamp |-> "now"]

\* str(e) of an exception that is not the custom error: "[Errno 32] Broken pipe"
OtherErrorText ==
    <<91, 69, 114, 114, 110, 111, 32, 51, 50, 93, 32, 66, 114, 111, 107,
    101, 110, 32, 112, 105, 112, 101>>

\* What can go wrong in one step of the try block: a fault of the bridge
\* call, or "other", an exception that is not the custom error raised by a
\* statement of the step after its bridge call, if it has one.
StepFaults == BridgeFaults \cup {"other"}

\* The exception a step ends with: "custom", "other" or "none".
Raised(r, fault) ==
    IF r.raised THEN "custom" ELSE IF fault = "other" THEN "other" ELSE "none"

\* str(e) of the exception a step ends with.
Message(r, exc) ==
    IF exc = "custom" THEN r.value ELSE IF exc = "other" THEN OtherErrorText ELSE <<>>

\* One entry of the history of steps.
Step(name, fault, r, exc) ==
    [name |-> name, fault |-> fault, ok |-> ~r.raised, exc |-> exc,
     msg |-> Message(r, exc), tab |-> r.tab, launched |-> r.launched]

\* The result of a step that makes no bridge call.
NoCall ==
    [raised |-> FALSE, value |-> <<>>, created |-> FALSE, exists |-> FALSE,
     tab |-> 0, launched |-> FALSE]

\* Handle with the clause  except Exception  missing: an exception that is
\* not the custom error leaves search_deepseek and no record is returned.
Handle_CustomOnly(exc, msg, q, done) ==
    IF exc = "custom" THEN ErrorRecord(q, msg, done) ELSE NoRecord

\* The two except clauses: the record returned for an exception.
Handle(exc, msg, q, done) ==
    IF exc = "custom" THEN ErrorRecord(q, msg, done)
    ELSE UnexpectedRecord(q, msg, done)

\* The file system after a bridge call.
FilesAfter(r) ==
    /\ ntmp' = IF r.created THEN ntmp + 1 ELSE ntmp
    /\ tmpfiles' = IF r.exists THEN tmpfiles \cup {ntmp + 1} ELSE tmpfiles

\* Main without the platform check.
Main_NoPlatformCheck ==
    /\ pc = "main"
    /\ pc' = "locate"
    /\ UNCHANGED <<envVars, browserVars, runVars, cleanerVars>>

\* main, from parse_args to the platform check and the call of search_deepseek.
Main ==
    /\ pc = "main"
    /\ IF platform # "darwin"
       THEN pc' = "exited" /\ exitCode' = 1
       ELSE pc' = "locate" /\ exitCode' = exitCode
    /\ UNCHANGED <<envVars, browserVars, tmpfiles, ntmp, content, results, steps, saved, cleanerVars>>

\* tab_result = find_deepseek_tab(), and the verbose print of it.
Locate ==
    /\ pc = "locate"
    /\ \E fault \in StepFaults :
         LET r == find_deepseek_tab(chrome, IF fault = "other" THEN "none" ELSE fault)
             exc == Raised(r, fault)
             done == Append(steps, Step("locate", fault, r, exc))
         IN  /\ FilesAfter(r)
             /\ chrome' = r.browser
             /\ steps' = done
             /\ IF exc = "none"
                THEN pc' = "delay" /\ results' = results
                ELSE pc' = "returned"
                     /\ results' = Handle(exc, Message(r, exc), query, done)
    /\ UNCHANGED <<envVars, pageText, content, exitCode, saved, cleanerVars>>

\* The wait for the manual input: the two prints and time.sleep(5), all
\* three inside  if verbose.
Delay ==
    /\ pc = "delay"
    /\ IF args.verbose
       THEN \E fault \in {"none", "other"} :
              LET exc == Raised(NoCall, fault)
                  done == Append(steps, Step("delay", fault, NoCall, exc))
              IN  /\ steps' = done
                  /\ IF exc = "none"
                     THEN pc' = "extract" /\ results' = results
                     ELSE pc' = "returned"
                          /\ results' = Handle(exc, Message(NoCall, exc), query, done)
       ELSE pc' = "extract" /\ UNCHANGED <<steps, results>>
    /\ UNCHANGED <<envVars, browserVars, tmpfiles, ntmp, content, exitCode, saved, cleanerVars>>

\* content = extract_content(query), and the verbose prints around it.
Extract ==
    /\ pc = "extract"
    /\ \E fault \in StepFaults :
         LET r == extract_content(query, chrome, IF fault = "other" THEN "none" ELSE fault)
             exc == Raised(r, fault)
             done == Append(steps, Step("extract", fault, r, exc))
         IN  /\ FilesAfter(r)
             /\ chrome' = r.browser
             /\ pageText' = IF r.tab # 0 THEN r.pageText ELSE pageText
             /\ steps' = done
             /\ IF exc = "none"
                THEN pc' = "clean" /\ content' = r.value /\ results' = results
                ELSE /\ pc' = "returned"
                     /\ content' = IF r.raised THEN content ELSE r.value
                     /\ results' = Handle(exc, Message(r, exc), query, done)
    /\ UNCHANGED <<envVars, exitCode, saved, cleanerVars>>

\* if clean: content = clean_content(content, query)
Clean ==
    /\ pc = "clean"
    /\ IF args.clean
       THEN \E fault \in {"none", "other"} :
              LET exc == Raised(NoCall, fault)
                  done == Append(steps, Step("clean", fault, NoCall, exc))
              IN  /\ steps' = done
                  /\ content' = clean_content(content, query)
                  /\ IF exc = "none"
                     THEN pc' = "assemble" /\ results' = results
                     ELSE pc' = "returned"
                          /\ results' = Handle(exc, Message(NoCall, exc), query, done)
       ELSE pc' = "assemble" /\ UNCHANGED <<steps, content, results>>
    /\ UNCHANGED <<envVars, browserVars, tmpfiles, ntmp, exitCode, saved, cleanerVars>>

\* elapsed_time = ...; return {...}
Assemble ==
    /\ pc = "assemble"
    /\ steps' = Append(steps, Step("assemble", "none", NoCall, "none"))
    /\ results' = SuccessRecord(query, content, args.clean, steps)
    /\ pc' = "returned"
    /\ UNCHANGED <<envVars, browserVars, tmpfiles, ntmp, content, exitCode, saved, cleanerVars>>

\* Whether main calls save_results for this record.
SaveAttempted(rec) == rec.success /\ ~args.text_only /\ args.output

\* ExitStatus with the final sys.exit(1) missing.
ExitStatus_NoExit(rec, written) ==
    IF rec.success /\ SaveAttempted(rec) /\ ~written THEN 1 ELSE 0

\* main's exit status: 1 from sys.exit(1) and from an exception that leaves
\* main (save_results could not write the file), 0 on falling off its end.
ExitStatus(rec, written) ==
    IF ~rec.success THEN 1
    ELSE IF SaveAttempted(rec) /\ ~written THEN 1
    ELSE 0

\* main after search_deepseek returned: print, save, exit.
Output ==
    /\ pc = "returned"
    /\ \E written \in (IF SaveAttempted(results) THEN BOOLEAN ELSE {FALSE}) :
         /\ saved' = IF ~SaveAttempted(results) THEN "no"
                     ELSE IF written THEN "ok" ELSE "failed"
         /\ exitCode' = ExitStatus(results, written)
    /\ pc' = "exited"
    /\ UNCHANGED <<envVars, browserVars, tmpfiles, ntmp, content, results, steps, cleanerVars>>

\* The pages of the model: the innerText of a DeepSeek tab.
PagePool == {
    <<>>,
    \* "DeepSeek", a menu label, "query line B", a 28-character Chinese
    \* line, "<U+53C2 U+8003> 12 <...>" and the marker U+6DF1 U+5165 U+7814 U+7A76
    <<68, 101, 101, 112, 83, 101, 101, 107, 10, 26032, 23545, 35805, 10,
      113, 117, 101, 114, 121, 32, 108, 105, 110, 101, 32, 66, 10, 31532,
      19968, 34892, 20869, 23481, 27809, 26377, 26597, 35810, 35789, 22312,
      36825, 37324, 65292, 36825, 19968, 34892, 36229, 36807, 20108, 21313,
      20010, 23383, 31526, 30340, 38271, 24230, 12290, 10, 21442, 32771, 32,
      49, 50, 32, 31687, 36164, 26009, 10, 28145, 20837, 30740, 31350>>,
    \* the 28-character Chinese line and "no match here"
    <<31532, 19968, 34892, 20869, 23481, 27809, 26377, 26597, 35810,
      35789, 22312, 36825, 37324, 65292, 36825, 19968, 34892, 36229, 36807,
      20108, 21313, 20010, 23383, 31526, 30340, 38271, 24230, 12290, 10,
      110, 111, 32, 109, 97, 116, 99, 104, 32, 104, 101, 114, 101>>,
    \* "query line B\nERROR: query xx"
    <<113, 117, 101, 114, 121, 32, 108, 105, 110, 101, 32, 66, 10, 69, 82,
      82, 79, 82, 58, 32, 113, 117, 101, 114, 121, 32, 120, 120>>
}

\* A tab: its identity, its URL and the innerText of its page.
Tab(id, url, text) == [id |-> id, url |-> url, text |-> text]

\* "https://chat.deepseek.com/a/chat"
DeepSeekUrl ==
    <<104, 116, 116, 112, 115, 58, 47, 47, 99, 104, 97, 116, 46, 100, 101,
    101, 112, 115, 101, 101, 107, 46, 99, 111, 109, 47, 97, 47, 99, 104,
    97, 116>>

\* "https://example.com/chat"
OtherUrl ==
    <<104, 116, 116, 112, 115, 58, 47, 47, 101, 120, 97, 109, 112, 108,
    101, 46, 99, 111, 109, 47, 99, 104, 97, 116>>

\* "query answer one"
TextA ==
    <<113, 117, 101, 114, 121, 32, 97, 110, 115, 119, 101, 114, 32, 111,
    110, 101>>

\* "query answer two"
TextB ==
    <<113, 117, 101, 114, 121, 32, 97, 110, 115, 119, 101, 114, 32, 116,
    119, 111>>

\* A running browser with these windows, front window first.
Running(windows) == [running |-> TRUE, windows |-> windows, active |-> 0]

\* A browser that is not running and opens these windows when started.
NotRunning(windows) == [running |-> FALSE, windows |-> windows, active |-> 0]

\* A running browser with one window holding one DeepSeek tab.
OneTab(text) == Running(<<<<Tab(1, DeepSeekUrl, text)>>>>)

\* The browsers of the model.
Browsers ==
    {OneTab(t) : t \in PagePool}
    \cup {
        \* not running; started, it opens a window without a DeepSeek tab
        NotRunning(<<<<Tab(1, OtherUrl, TextA)>>>>),
        \* not running; started, it reopens a DeepSeek tab
        NotRunning(<<<<Tab(1, DeepSeekUrl, TextA)>>>>),
        \* running without a DeepSeek tab
        Running(<<<<Tab(1, OtherUrl, TextA)>>>>),
        \* one window, two DeepSeek tabs behind another tab
        Running(<<<<Tab(1, OtherUrl, TextA), Tab(2, DeepSeekUrl, TextA),
                   Tab(3, DeepSeekUrl, TextB)>>>>),
        \* three windows, the first DeepSeek tab in the second one
        Running(<<<<Tab(1, OtherUrl, TextA)>>,
                  <<Tab(2, OtherUrl, TextB), Tab(3, DeepSeekUrl, TextA)>>,
                  <<Tab(4, DeepSeekUrl, TextB)>>>>),
        \* two windows, each with a DeepSeek tab
        Running(<<<<Tab(1, DeepSeekUrl, TextB), Tab(2, OtherUrl, TextA)>>,
                  <<Tab(3, DeepSeekUrl, TextA)>>>>)
    }

Init ==
    /\ pc = "main"
    /\ args \in [clean : BOOLEAN, verbose : BOOLEAN, text_only : BOOLEAN,
                 output : BOOLEAN]
    /\ platform \in {"darwin", "other"}
    /\ query \in {<<>>, <<113, 117, 101, 114, 121>>, <<76, 105, 110, 101>>}
    /\ chrome \in Browsers
    /\ pageText = <<>>
    /\ tmpfiles = {}
    /\ ntmp = 0
    /\ content = <<>>
    /\ results = NoRecord
    /\ steps = <<>>
    /\ exitCode = -1
    /\ saved = "no"
    /\ text_in = <<>>
    /\ clean1 = <<>>
    /\ clean2 = <<>>

Next == Main \/ Locate \/ Delay \/ Extract \/ Clean \/ Assemble \/ Output

Spec == Init /\ [][Next]_vars

---------------------------------------------------------------------------
(* Cleaner specification: clean_content applied once, then again to its   *)
(* own output, on inputs drawn from a pool of lines.                       *)

LinePool == {
    <<>>,
    <<65>>,                                                              \* "A"
    <<67>>,                                                              \* "C"
    <<113, 117, 101, 114, 121, 32, 108, 105, 110, 101, 32, 66>>,         \* "query line B"
    <<32, 32, 81, 117, 101, 114, 121, 32, 76, 73, 78, 69, 32, 67, 32, 32>>, \* "  Query LINE C  "
    <<69, 82, 82, 79, 82, 58, 32, 113, 117, 101, 114, 121, 32, 120, 120>>,  \* "ERROR: query xx"
    <<45, 45, 45, 45, 45, 45, 45, 45, 45, 45, 45>>,                      \* "-----------" (11)
    <<31532, 19968, 34892, 20869, 23481, 27809, 26377, 26597, 35810,
      35789, 22312, 36825, 37324>>,                                      \* 13 ideographs
    <<21442, 32771, 32, 49, 50, 51, 52, 32, 31687, 36164, 26009>>,       \* U+53C2 U+8003 " 1234 " U+7BC7 U+8D44 U+6599
    <<97, 98, 99, 100, 101, 102, 103, 104, 105, 106>>                    \* "abcdefghij" (10)
}

QueryPool == {
    <<>>,                              \* no query
    <<113, 117, 101, 114, 121>>,       \* "query"
    <<76, 105, 110, 101>>              \* "Line"
}

Inputs ==
    UNION {{join(ls, NL) : ls \in [1..n -> LinePool]} : n \in 1..MaxLines}

InitClean ==
    /\ pc = "c_input"
    /\ text_in \in Inputs
    /\ query \in QueryPool
    /\ clean1 = <<>>
    /\ clean2 = <<>>
    /\ args = [clean |-> TRUE, verbose |-> FALSE, text_only |-> FALSE, output |-> FALSE]
    /\ platform = "darwin"
    /\ chrome = NotRunning(<<>>)
    /\ pageText = <<>>
    /\ tmpfiles = {}
    /\ ntmp = 0
    /\ content = <<>>
    /\ results = NoRecord
    /\ steps = <<>>
    /\ exitCode = -1
    /\ saved = "no"

CleanOnce ==
    /\ pc = "c_input"
    /\ clean1' = clean_content(text_in, query)
    /\ pc' = "c_once"
    /\ UNCHANGED <<envVars, browserVars, runVars, text_in, clean2>>

CleanTwice ==
    /\ pc = "c_once"
    /\ clean2' = clean_content(clean1, query)
    /\ pc' = "c_twice"
    /\ UNCHANGED <<envVars, browserVars, runVars, text_in, clean1>>

NextClean == CleanOnce \/ CleanTwice

SpecClean == InitClean /\ [][NextClean]_vars

---------------------------------------------------------------------------
(* Extraction specification: one call of extract_content(query) against a *)
(* browser with one DeepSeek tab, on page texts put together from pieces  *)
(* and on texts longer than the 5000 characters of the cut.               *)

\* Length of the short filler between the query and a marker.
ShortGap == 3

\* Length of the long filler: more than MaxChars.
LongLen == 5010

\* Largest number of lines of a page text for the generic branch.
MaxGenLines == 2

\* The first n characters of pat repeated.
Fill(n, pat) == [i \in 1..n |-> pat[((i - 1) % Len(pat)) + 1]]

\* "ab \n": filler with runs of two white-space characters
Filler == <<97, 98, 32, 10>>

\* Three ideographs, the material of the Chinese lines.
Ideographs == <<31532, 19968, 34892>>

\* "query"
Q == <<113, 117, 101, 114, 121>>

\* The filler length that puts what follows exactly at start + 50.
GapAt == MarkerOffset - Len(Q)

\* Page texts for the query branch: the query, a filler that ends before,
\* one short of or at start + 50, a marker or none, a filler of 50
\* characters, a marker, the query again or nothing, and a tail.
ScopedTexts ==
    {pre \o Q \o Fill(g, Filler) \o m1 \o Fill(MarkerOffset, Filler) \o m2 \o tail :
        pre \in {<<>>, <<120, 10>>},
        g \in {ShortGap, GapAt - 1, GapAt},
        m1 \in {<<>>, endMarkers[1], endMarkers[6]},
        m2 \in {<<>>, endMarkers[5], Q},
        tail \in {<<>>, <<32, 122, 122, 32>>}}

\* Page texts that go on for more than 5000 characters after the query.
LongTexts ==
    {pre \o Q \o Fill(GapAt - 1, Filler) \o m1 \o Fill(LongLen, Filler) \o m2 :
        pre \in {<<>>, <<120, 10>>},
        m1 \in {<<>>, endMarkers[1]},
        m2 \in {<<>>, endMarkers[5]}}

\* Lines for the generic branch: Chinese lines of 21 and of 20 characters,
\* one to trim, one a skip pattern matches, a line without Chinese of 24
\* characters, the empty line, a mixed line of 21 characters.
GenericLines == {
    Fill(MinJsLineLen + 1, Ideographs),
    Fill(MinJsLineLen, Ideographs),
    <<32, 32>> \o Fill(MinJsLineLen + 1, <<34892, 19968>>) \o <<32>>,
    skipPatterns[6].s \o Fill(MinJsLineLen, Ideographs),
    <<110, 111, 32, 99, 104, 105, 110, 101, 115, 101, 32, 116, 101, 120,
    116, 32, 105, 110, 32, 104, 101, 114, 101, 33>>,
    <<>>,
    <<120>> \o Fill(MinJsLineLen, Ideographs)
}

\* Page texts for the generic branch, among them texts of more than 5000
\* characters without a line that qualifies.
GenericTexts ==
    UNION {{join(ls, NL) : ls \in [1..n -> GenericLines]} : n \in 1..MaxGenLines}
    \cup {Fill(LongLen, <<97, 98, 32>>),
          <<32, 10>> \o Fill(LongLen, <<97, 98>>),
          Fill(MinJsLineLen, Ideographs) \o NL \o Fill(LongLen, <<97, 32>>)}

\* The calls of the specification: a query and the page text.
ExtractInputs ==
    {[q |-> q, text |-> t] : q \in {Q, <<76, 105, 110, 101>>},
                             t \in ScopedTexts \cup LongTexts}
    \cup {[q |-> <<>>, text |-> t] : t \in GenericTexts}

InitExtract ==
    /\ pc = "extract"
    /\ \E in \in ExtractInputs : query = in.q /\ chrome = OneTab(in.text)
    /\ pageText = <<>>
    /\ args = [clean |-> FALSE, verbose |-> FALSE, text_only |-> FALSE, output |-> FALSE]
    /\ platform = "darwin"
    /\ tmpfiles = {}
    /\ ntmp = 0
    /\ content = <<>>
    /\ results = NoRecord
    /\ steps = <<>>
    /\ exitCode = -1
    /\ saved = "no"
    /\ text_in = <<>>
    /\ clean1 = <<>>
    /\ clean2 = <<>>

NextExtract == Extract

SpecExtract == InitExtract /\ [][NextExtract]_vars

---------------------------------------------------------------------------
(* Properties of clean_content, checked under SpecClean *)

\* The lines of an output: its segments between blank lines; none when empty.
EmittedLines(out) == IF out = <<>> THEN <<>> ELSE split(out, NL \o NL)

\* The lines of the input that the cleaner retains, in order.
Retained(x) == CleanedLines(split(x, NL))

\* The input has no line that matches a deny-list pattern.
DenyFree(x) ==
    LET lines == split(x, NL)
    IN  \A k \in 1..Len(lines) : ~Excluded(strip(lines[k]))

MatchesQuery(line, q) == Contains(lower(line), lower(q))

Cleaned == pc \in {"c_once", "c_twice"}

\* C1: every line clean_content emits is non-empty after trimming, longer
\* than 10 characters, matches no deny-list pattern and contains a CJK
\* ideograph or an ASCII letter or digit.
C1_EmittedLinesClean ==
    Cleaned =>
        LET emitted == EmittedLines(clean1)
        IN  \A k \in 1..Len(emitted) :
                /\ strip(emitted[k]) # <<>>
                /\ Len(emitted[k]) >= 11
                /\ ~Excluded(emitted[k])
                /\ \E i \in 1..Len(emitted[k]) :
                       IsCJK(emitted[k][i]) \/ IsAsciiAlnum(emitted[k][i])

\* C1 witness: two lines are emitted from an input that also held a
\* deny-listed line of more than 10 characters.
C1_Witness ==
    /\ pc = "c_once"
    /\ Len(EmittedLines(clean1)) = 2
    /\ LET lines == split(text_in, NL)
       IN  \E k \in 1..Len(lines) : Excluded(lines[k]) /\ Len(lines[k]) > 10

\* C2: with a non-empty query and at least one retained line, the output is
\* the retained lines from the first one whose lowercase form contains the
\* lowercase query to the last, in order; all retained lines when none
\* contains it.  "A\nquery line B\nC" with "query" starts at "query line B".
C2_AnchorAndTruncate ==
    (Cleaned /\ query # <<>> /\ Retained(text_in) # <<>>) =>
        LET r == Retained(text_in)
        IN  /\ \/ \E i \in 1..Len(r) :
                     /\ MatchesQuery(r[i], query)
                     /\ \A j \in 1..(i - 1) : ~MatchesQuery(r[j], query)
                     /\ clean1 = join(SubSeq(r, i, Len(r)), NL \o NL)
               \/ /\ \A i \in 1..Len(r) : ~MatchesQuery(r[i], query)
                  /\ clean1 = join(r, NL \o NL)
            /\ (/\ text_in = <<65, 10, 113, 117, 101, 114, 121, 32, 108, 105,
                               110, 101, 32, 66, 10, 67>>
                /\ query = <<113, 117, 101, 114, 121>>)
               => StartsWith(clean1, <<113, 117, 101, 114, 121, 32, 108, 105,
                                       110, 101, 32, 66>>)

\* C2 witness: a retained line precedes the first line containing the query
\* and is cut from the output.
C2_Witness ==
    /\ pc = "c_once"
    /\ query # <<>>
    /\ Len(Retained(text_in)) = 3
    /\ Len(EmittedLines(clean1)) = 2
    /\ ~MatchesQuery(Retained(text_in)[1], query)

\* C3: for an input free of deny-listed lines, cleaning the cleaned output
\* again, with the same query or with none, changes nothing.
C3_Idempotent ==
    (pc = "c_twice" /\ DenyFree(text_in)) => clean2 = clean1

\* C3 witness: a deny-free input of which the first pass dropped a line and
\* cut the lines before the anchor, cleaned twice.
C3_Witness ==
    /\ pc = "c_twice"
    /\ DenyFree(text_in)
    /\ query # <<>>
    /\ Len(Retained(text_in)) = 2
    /\ Len(EmittedLines(clean1)) = 1
    /\ clean1 # strip(text_in)

---------------------------------------------------------------------------
(* Properties of search_deepseek and main, checked under Spec *)

\* The tabs of the browser, and the page text of the tab with an identity.
AllTabs ==
    UNION {{chrome.windows[w][t] : t \in 1..Len(chrome.windows[w])} :
              w \in 1..Len(chrome.windows)}

TextOfTab(id) == (CHOOSE t \in AllTabs : t.id = id).text

StepNames == [i \in 1..Len(steps) |-> steps[i].name]

IsPrefix(a, b) == Len(a) <= Len(b) /\ SubSeq(b, 1, Len(a)) = a

\* search_deepseek was called and has returned.
Returned == pc \in {"returned", "exited"} /\ Len(steps) > 0

\* The last step ended with an exception.
LastStepRaised == Len(steps) > 0 /\ steps[Len(steps)].exc # "none"

\* C4: when the tab is located, the steps run in the order locate, delay,
\* extract, clean (if requested), assemble, for every value of the flags:
\* the delay always lies between locate and extract.
C4_StepOrder ==
    (Len(steps) > 0 /\ steps[1].ok) =>
        IsPrefix(StepNames,
                 IF args.clean
                 THEN <<"locate", "delay", "extract", "clean", "assemble">>
                 ELSE <<"locate", "delay", "extract", "assemble">>)

\* C5: once execute_applescript has returned or raised, the temporary
\* script file it created no longer exists.
C5_TempFileRemoved == \A f \in 1..ntmp : f \notin tmpfiles

C7_FailFastOnLocate ==
    (Len(steps) > 0 /\ ~steps[1].ok) =>
        /\ Len(steps) = 1
        /\ ntmp <= 1
        /\ Returned
        /\ {"success", "error"} \subseteq DOMAIN results
        /\ ~results.success
        /\ Len(results.error) > 0
        /\ (pc = "exited" => exitCode = 1)

\* C7 witness: no tab matched, and the process has exited.
C7_Witness ==
    /\ pc = "exited"
    /\ ~TabFound(chrome)
    /\ Len(steps) = 1
    /\ steps[1].name = "locate"
    /\ steps[1].fault = "none"
    /\ steps[1].exc = "custom"
    /\ steps[1].msg = S_TABNF
    /\ exitCode = 1

CommonFields == {"success", "query", "elapsed_time", "timestamp"}

\* C8 as claimed: every record carries success, query, length, cleaned,
\* elapsed_time and timestamp, and content iff success, error iff not.
C8_AllFieldsAlways ==
    Returned =>
        /\ (CommonFields \cup {"length", "cleaned"}) \subseteq DOMAIN results
        /\ ("content" \in DOMAIN results) = results.success
        /\ ("error" \in DOMAIN results) = ~results.success

\* C8 as amended: every record carries success, query, elapsed_time and
\* timestamp; a successful one carries exactly content, length and cleaned
\* besides, a failed one exactly error.
C8_RecordShape ==
    Returned =>
        /\ CommonFields \subseteq DOMAIN results
        /\ DOMAIN results \ CommonFields =
              IF results.success THEN {"content", "length", "cleaned"} ELSE {"error"}
        /\ results.success => results.length = Len(results.content)

\* C8 witness: a failed record of the extract step has been returned.
C8_Witness ==
    /\ pc = "returned"
    /\ Len(steps) = 2
    /\ ~steps[2].ok
    /\ ~results.success

Failed == Returned /\ ~results.success

C10_NotFoundIsData ==
    \A i \in 1..Len(steps) :
        (/\ steps[i].name = "extract"
         /\ steps[i].fault = "none"
         /\ steps[i].tab # 0
         /\ query # <<>>
         /\ ~Contains(TextOfTab(steps[i].tab), query))
        => /\ steps[i].ok
           /\ StartsWith(content, SubSeq(S_QNF, 1, 30))
           /\ Len(content) <= Len(S_QNF) + 5000


\* C11: when no tab matches, find_deepseek_tab tells a browser that was not
\* running from a running browser without a matching tab: the error it
\* raises against the browser it had to start differs from the error it
\* raises against the same browser once it runs.
C11_DistinctErrors ==
    (/\ Len(steps) >= 1
     /\ steps[1].name = "locate"
     /\ steps[1].fault = "none"
     /\ steps[1].launched
     /\ ~TabFound(chrome))
    => /\ steps[1].exc = "custom"
       /\ chrome.running
       /\ steps[1].msg # find_deepseek_tab(chrome, "none").value

\* The identity of the first tab of a window whose URL contains the host
\* substring, 0 if the window has none.
FirstMatchId(window) ==
    LET m == {t \in 1..Len(window) : Contains(window[t].url, HostSubstring)}
    IN  IF m = {} THEN 0 ELSE window[SetMin(m)].id

\* C14: the tab whose page extract_content reads is the tab that
\* find_deepseek_tab found and activated: it is the first matching tab of
\* the window that the locate step made the first window, and the active
\* tab of the browser.
C14_SameTab ==
    \A i \in 1..Len(steps) :
        (steps[i].name = "extract" /\ steps[i].tab # 0)
        => /\ steps[1].name = "locate"
           /\ steps[1].tab = steps[i].tab
           /\ chrome.active = steps[i].tab
           /\ FirstMatchId(chrome.windows[1]) = steps[i].tab

\* extract_content has read a tab of a window that was not the first window
\* before the locate step, while another window holds a matching tab too.
C14_Witness ==
    /\ Len(steps) >= 2
    /\ steps[Len(steps)].name = "extract"
    /\ steps[Len(steps)].tab # 0
    /\ Len(chrome.windows) = 3
    /\ chrome.windows[1][1].id # 1
    /\ FirstMatchId(chrome.windows[3]) # 0

\* C15: the content of a successful record never contains "ERROR:", and a
\* bridge call whose output contains "ERROR:" anywhere ends with the custom
\* error and a failed record.
C15_NoErrorMarkerInContent ==
    /\ (Returned /\ results.success) => ~Contains(results.content, S_ERROR)
    /\ \A i \in 1..Len(steps) :
          (/\ steps[i].name = "extract"
           /\ steps[i].tab # 0
           /\ Contains(pageText, S_ERROR))
          => /\ steps[i].exc = "custom"
             /\ Returned => ~results.success
    /\ \A i \in 1..Len(steps) :
          (/\ steps[i].name = "locate"
           /\ steps[i].fault \in {"none", "other"}
           /\ steps[i].tab = 0)
          => /\ steps[i].exc = "custom"
             /\ Returned => ~results.success

\* The query was found in the page, the extracted text holds "ERROR:" after
\* its start, and the record is a failed record whose error is that text.
C15_Witness ==
    /\ Returned
    /\ ~results.success
    /\ query # <<>>
    /\ steps[Len(steps)].name = "extract"
    /\ steps[Len(steps)].tab # 0
    /\ Contains(TextOfTab(steps[Len(steps)].tab), query)
    /\ Contains(pageText, S_ERROR)
    /\ ~StartsWith(pageText, S_ERROR)
    /\ results.error = strip(pageText)

---------------------------------------------------------------------------
(* Properties of the page script, checked under SpecExtract *)

\* The page text of the tab the last step read.
ReadText == TextOfTab(steps[Len(steps)].tab)

\* The page script ran in the last step, an extract step.
ScriptRan ==
    /\ Len(steps) >= 1
    /\ steps[Len(steps)].name = "extract"
    /\ steps[Len(steps)].tab # 0

\* The offset of the first occurrence of the query in the page text.
ScopedStart == SetMin(Occurrences(ReadText, query, 0))

\* The offsets at or after from where one of the six markers occurs.
MarkerHits(from) ==
    {e \in from..Len(ReadText) :
        \E k \in 1..Len(endMarkers) :
            /\ e + Len(endMarkers[k]) <= Len(ReadText)
            /\ SubSeq(ReadText, e + 1, e + Len(endMarkers[k])) = endMarkers[k]}

ScopedEnd ==
    IF MarkerHits(ScopedStart + 50) = {} THEN ScopedStart + 5000
    ELSE SetMin(MarkerHits(ScopedStart + 50))

\* text[start, end)
ScopedRegion ==
    SubSeq(ReadText, ScopedStart + 1,
           IF ScopedEnd < Len(ReadText) THEN ScopedEnd ELSE Len(ReadText))

\* s without its leading and trailing white space and with a single space
\* for every other run of white space.
Squeeze(s) ==
    LET lastInk == CHOOSE i \in 0..Len(s) :
                       /\ i = 0 \/ ~JsIsSpace(s[i])
                       /\ \A j \in (i + 1)..Len(s) : JsIsSpace(s[j])
        kept == SelectSeq([i \in 1..Len(s) |-> i],
                          LAMBDA i : \/ ~JsIsSpace(s[i])
                                     \/ /\ i > 1
                                        /\ ~JsIsSpace(s[i - 1])
                                        /\ i < lastInk)
    IN  [k \in 1..Len(kept) |-> IF JsIsSpace(s[kept[k]]) THEN 32 ELSE s[kept[k]]]

Qualifies(line) ==
    /\ ~\E k \in 1..13 : js_test(exclude_patterns[k], line)
    /\ \E i \in 1..Len(line) : line[i] \in 19968..40959
    /\ Len(line) > 20

\* The trimmed lines of the page text that qualify, in page order.
QualifyingLines ==
    LET lines == split(ReadText, NL)
    IN  SelectSeq([i \in 1..Len(lines) |-> js_trim(lines[i])], Qualifies)

\* No line of 20 or more characters contains an ideograph.
NoLongChineseLine ==
    LET lines == split(ReadText, NL)
    IN  \A i \in 1..Len(lines) :
            Len(lines[i]) >= 20 => ~\E j \in 1..Len(lines[i]) : lines[i][j] \in 19968..40959

=============================================================================
